---------------------------- MODULE Spec2Model ----------------------------
(***************************************************************************)
(* The interaction controller of the looker media viewer                   *)
(* (app/packages/looker/src/elements/common.ts) and the overlay base       *)
(* (app/packages/looker/src/overlays/base.ts) as a state machine.          *)
(*                                                                         *)
(* The viewer state is one record, replaced by the update engine on every  *)
(* commit.  Every DOM event handler is one action.  The two debounced      *)
(* timers live in the runtime's timer table `timers`; the element keeps    *)
(* their handles.  JavaScript numbers are modelled as exact rationals      *)
(* <<numerator, denominator>> in lowest terms.                             *)
(***************************************************************************)
EXTENDS Integers, Sequences, FiniteSets, TLC

VARIABLES
    state,                \* the viewer state (BaseState)
    start,                \* LookerElement.start, the drag anchor
    hideControlsTimeout,  \* LookerElement.hideControlsTimeout (0 = unset)
    wheelTimeout,         \* LookerElement.wheelTimeout (0 = unset)
    timers,               \* the runtime's pending timers
    overlays,             \* the overlays of the current frame, in load order
    alive,                \* FALSE once the viewer is torn down
    anchor,               \* history: page position and pan at the last pointer-down
    gestures,             \* number of pan/zoom gestures started so far
    last,                 \* the handler the last step ran and what it did outside the state
    returned              \* what the last call returned: a handler the patch it
                          \* handed to update, an overlay method its result

vars == <<state, start, hideControlsTimeout, wheelTimeout, timers, overlays,
          alive, anchor, gestures, last, returned>>

----------------------------------------------------------------------------
(* Bounds of the model. *)

MaxGestures == 2
MaxRotate == 2
TickMs == 1000
MaxOverlays == 3

----------------------------------------------------------------------------
(* Exact rational arithmetic for JavaScript numbers. *)

Abs(n) == IF n < 0 THEN -n ELSE n

RECURSIVE GCD(_, _)
GCD(a, b) == IF b = 0 THEN a ELSE GCD(b, a % b)

Rat(n, d) ==
    LET g == GCD(Abs(n), Abs(d))
        s == IF d < 0 THEN -1 ELSE 1
    IN  <<(s * n) \div g, (s * d) \div g>>

Num(n) == <<n, 1>>

RatAdd(a, b) ==
    LET g == GCD(a[2], b[2])
    IN  Rat(a[1] * (b[2] \div g) + b[1] * (a[2] \div g), (a[2] \div g) * b[2])

RatNeg(a) == <<-a[1], a[2]>>

RatSub(a, b) == RatAdd(a, RatNeg(b))

RatMul(a, b) ==
    LET g1 == GCD(Abs(a[1]), b[2])
        g2 == GCD(Abs(b[1]), a[2])
    IN  Rat((a[1] \div g1) * (b[1] \div g2), (a[2] \div g2) * (b[2] \div g1))

RatInv(a) == Rat(a[2], a[1])

RatDiv(a, b) == RatMul(a, RatInv(b))

RatLess(a, b) == a[1] * b[2] < b[1] * a[2]

RatMax(a, b) == IF RatLess(a, b) THEN b ELSE a

RatMin(a, b) == IF RatLess(b, a) THEN b ELSE a

----------------------------------------------------------------------------
(* Program constants. *)

\* CONTAINS (overlays/base.ts): numerical order is the precedence
NONE == 0
CONTENT == 1
BORDER == 2

\* setTimeout delays of the two debounced timers, in ms
HideControlsDelay == 2500
WheelDelay == 200

\* the wheel's zoom factor 1.15
ZoomFactor == <<23, 20>>

Origin == <<Num(0), Num(0)>>

----------------------------------------------------------------------------
(* The environment: windows, media, events, overlays. *)

\* windowBBox = [tlx, tly, width, height] and config.dimensions = [w, h]
Windows == { <<0, 0, 400, 300>>, <<20, 10, 400, 300>> }
Dimensions == { <<600, 400>>, <<440, 300>> }

\* MouseEvent coordinates: x, y are client coordinates, pageX, pageY page
\* coordinates (they differ when the page is scrolled)
MouseEvents ==
    { [x |-> 100, y |-> 100, pageX |-> 100, pageY |-> 100],
      [x |-> 150, y |-> 120, pageX |-> 150, pageY |-> 120],
      [x |-> 120, y |-> 60,  pageX |-> 120, pageY |-> 90] }

DeltaYs == { -100, 0, 100 }

\* state.frameNumber of a frame-aware viewer; 0 stands for a state without one
FrameNumbers == { 0, 7 }

Keys == { "ArrowDown", "ArrowUp", "Escape", "s", "m" }

\* an overlay: its label id, its field, what containsPoint reports at the
\* cursor, what the field's filter predicate answers for its label and
\* whether the predicate raises for it, its label text, and its cached color
\* ("" while unset) with the number of times the cache was written
OverlayA == [id |-> "A", field |-> "ground_truth", contains |-> BORDER, passes |-> TRUE,
             raises |-> FALSE, label |-> "cat", color |-> "", colorWrites |-> 0]
OverlayB == [id |-> "B", field |-> "predictions", contains |-> CONTENT, passes |-> TRUE,
             raises |-> FALSE, label |-> "dog", color |-> "", colorWrites |-> 0]
OverlayC == [id |-> "C", field |-> "predictions", contains |-> NONE, passes |-> TRUE,
             raises |-> FALSE, label |-> "cat", color |-> "", colorWrites |-> 0]
OverlayD == [id |-> "D", field |-> "ground_truth", contains |-> BORDER, passes |-> FALSE,
             raises |-> FALSE, label |-> "dog", color |-> "", colorWrites |-> 0]
\* an overlay whose label makes the field's filter predicate raise
OverlayE == [id |-> "E", field |-> "ground_truth", contains |-> CONTENT, passes |-> TRUE,
             raises |-> TRUE, label |-> "cat", color |-> "", colorWrites |-> 0]

\* options.coloring
Coloring(pool, seed, byLabel) == [pool |-> pool, seed |-> seed, byLabel |-> byLabel]

DefaultColoring == Coloring(<<"red", "green", "blue">>, 0, FALSE)

Colorings ==
    { DefaultColoring,
      Coloring(<<"cyan", "pink", "gold">>, 0, FALSE),
      Coloring(<<"red", "green", "blue">>, 1, FALSE),
      Coloring(<<"red", "green", "blue">>, 0, TRUE) }

Perms(S) ==
    { p \in [1..Cardinality(S) -> S] : \A i, j \in DOMAIN p : i # j => p[i] # p[j] }

OverlayLists ==
    {<<>>, <<OverlayC>>, <<OverlayC, OverlayB>>, <<OverlayD, OverlayB>>}
        \cup Perms({OverlayA, OverlayB, OverlayC})

----------------------------------------------------------------------------
(* Viewer state transforms (util.ts). *)

\* The bounds of the zoom scale for a window and a media size: never below
\* the fitted media (scale 1), never beyond the media's native resolution.
MinScale(window, dimensions) == Num(1)

MaxScale(window, dimensions) ==
    RatMax(Num(1), RatMax(Rat(dimensions[1], window[1]), Rat(dimensions[2], window[2])))

\* clampScale([ww, wh], [iw, ih], scale)
clampScale(window, dimensions, scale) ==
    RatMax(RatMin(MaxScale(window, dimensions), scale), MinScale(window, dimensions))

----------------------------------------------------------------------------
(* The update engine. *)

\* a patch's options are merged into the state's options field by field
MergeOptions(options, patch) ==
    [k \in DOMAIN options |-> IF k \in DOMAIN patch THEN patch[k] ELSE options[k]]

\* update(patch): the committed state
Merge(st, patch) ==
    [k \in DOMAIN st |->
        IF k \in DOMAIN patch
        THEN IF k = "options" THEN MergeOptions(st.options, patch.options) ELSE patch[k]
        ELSE st[k]]

----------------------------------------------------------------------------
(* Overlays (overlays/base.ts). *)

\* mutant: activePaths is not looked at
isShownAllPaths(st, o) ==
    IF o.field \in st.options.filter THEN o.passes ELSE TRUE

\* isShown(state, field, label)
isShown(st, o) ==
    IF st.options.activePaths # <<>> /\ o.field \notin st.options.activePaths[1]
    THEN FALSE
    ELSE IF o.field \in st.options.filter
         THEN o.passes
         ELSE TRUE

\* the predicate call of isShown raises, and nothing in isShown catches it
isShownRaises(st, o) ==
    /\ ~(st.options.activePaths # <<>> /\ o.field \notin st.options.activePaths[1])
    /\ o.field \in st.options.filter
    /\ o.raises

\* getColor(pool, seed, key) of ../color: a color of the pool, picked by the
\* seed and the key
KeyHash(key) ==
    CASE key = "ground_truth" -> 0
      [] key = "predictions" -> 1
      [] key = "cat" -> 2
      [] OTHER -> 4

getColor(pool, seed, key) == pool[((seed + KeyHash(key)) % Len(pool)) + 1]

\* mutant: the color is computed and stored on every call
CoordinateOverlay_getColorNoCache(o, options) ==
    [o EXCEPT !.color = getColor(options.coloring.pool, options.coloring.seed,
                                 IF options.coloring.byLabel THEN o.label ELSE o.field),
              !.colorWrites = o.colorWrites + 1]

\* CoordinateOverlay.getColor({ options }): the overlay after the call; the
\* call returns its color
CoordinateOverlay_getColor(o, options) ==
    IF o.color = ""
    THEN [o EXCEPT !.color = getColor(options.coloring.pool, options.coloring.seed,
                                      IF options.coloring.byLabel THEN o.label ELSE o.field),
                   !.colorWrites = o.colorWrites + 1]
    ELSE o

\* CoordinateOverlay.getSelectData(state)
getSelectData(o, st) ==
    [id |-> o.id, field |-> o.field, frameNumber |-> st.frameNumber]

\* getPointInfo(state), as far as the base class fixes it
getPointInfo(o, st) ==
    [id |-> o.id, field |-> o.field, frameNumber |-> 0, coordinates |-> <<>>]

Rotate(seq, n) ==
    IF seq = <<>> THEN seq
    ELSE LET k == n % Len(seq)
         IN  [i \in 1..Len(seq) |-> seq[((i - 1 + k) % Len(seq)) + 1]]

\* The overlay list the engine hands to a post-commit callback: the shown
\* overlays, BORDER before CONTENT before NONE, load order within a tier, and
\* `rotate` cycling through the overlays of the top tier.
ProcessOverlays(st, ovs) ==
    LET shown == SelectSeq(ovs, LAMBDA o : isShown(st, o))
        tier(c) == SelectSeq(shown, LAMBDA o : o.contains = c)
    IN  IF tier(BORDER) # <<>>
        THEN Rotate(tier(BORDER), st.rotate) \o tier(CONTENT) \o tier(NONE)
        ELSE Rotate(tier(CONTENT), st.rotate) \o tier(NONE)

----------------------------------------------------------------------------
(* The tooltip resolver and what a handler does outside the state. *)

Event(name, detail) == [name |-> name, detail |-> detail]

\* mutant: the resolver looks at the last overlay of the list
dispatchTooltipEventOfLast(st, ovs) ==
    IF st.playing /\ st.config.thumbnail THEN <<>>
    ELSE IF ~st.options.showTooltip THEN <<>>
    ELSE << Event("tooltip",
                  IF ovs # <<>> /\ ovs[Len(ovs)].contains # NONE
                  THEN <<[getPointInfo(ovs[Len(ovs)], st)
                            EXCEPT !.coordinates = st.cursorCoordinates]>>
                  ELSE <<>>) >>

\* mutant: the state's frame number is not attached to the payload
dispatchTooltipEventNoFrame(st, ovs) ==
    IF st.playing /\ st.config.thumbnail THEN <<>>
    ELSE IF ~st.options.showTooltip THEN <<>>
    ELSE << Event("tooltip",
                  IF ovs # <<>> /\ ovs[1].contains # NONE
                  THEN <<[getPointInfo(ovs[1], st)
                            EXCEPT !.coordinates = st.cursorCoordinates]>>
                  ELSE <<>>) >>

\* dispatchTooltipEvent(dispatchEvent)(state, overlays): the events dispatched
dispatchTooltipEvent(st, ovs) ==
    IF st.playing /\ st.config.thumbnail THEN <<>>
    ELSE IF ~st.options.showTooltip THEN <<>>
    ELSE LET detail == IF ovs # <<>> /\ ovs[1].contains # NONE
                       THEN <<getPointInfo(ovs[1], st)>>
                       ELSE <<>>
             framed == IF st.frameNumber # 0 /\ detail # <<>>
                       THEN <<[detail[1] EXCEPT !.frameNumber = st.frameNumber]>>
                       ELSE detail
         IN  << Event("tooltip",
                      IF framed # <<>>
                      THEN <<[framed[1] EXCEPT !.coordinates = st.cursorCoordinates]>>
                      ELSE <<>>) >>

\* the record of one handler run: which handler, whether it called
\* event.preventDefault(), how many commits it made, whether the tooltip
\* resolver ran as post-commit step, and the events it dispatched
Ran(handler, prevented, commits, resolver, dispatched) ==
    [handler |-> handler, prevented |-> prevented, commits |-> commits,
     resolver |-> resolver, dispatched |-> dispatched]

----------------------------------------------------------------------------
(* The runtime's timers. *)

TimerIds == 1..3

Unused(ts) == { i \in TimerIds : \A t \in ts : t.id # i }

FreshId(ts) == CHOOSE i \in Unused(ts) : \A j \in Unused(ts) : i <= j

\* clearTimeout(id)
clearTimeout(ts, id) == { t \in ts : t.id # id }

\* setTimeout(callback, delay)
setTimeout(ts, kind, delay) ==
    ts \cup { [id |-> FreshId(ts), kind |-> kind, remaining |-> delay] }

PendingIn(ts, kind) == { t \in ts : t.kind = kind }

Pending(kind) == PendingIn(timers, kind)

----------------------------------------------------------------------------
(* The initial state. *)

Configs == [thumbnail : BOOLEAN, dimensions : Dimensions]

\* options: activePaths is <<>> when unset and <<paths>> when set, filter is
\* the set of the fields that have a predicate
Options(showTooltip, activePaths, filter) ==
    [showTooltip |-> showTooltip, activePaths |-> activePaths, filter |-> filter,
     coloring |-> DefaultColoring]

OptionSets ==
    { Options(TRUE, <<>>, {}),
      Options(FALSE, <<{"ground_truth", "predictions"}>>, {"ground_truth"}) }

InitialState(config, window, options, playing, frameNumber) ==
    [pan |-> Origin, scale |-> Num(1), windowBBox |-> window,
     cursorCoordinates |-> <<0, 0>>,
     panning |-> FALSE, hovering |-> FALSE, wheeling |-> FALSE,
     showControls |-> FALSE, showOptions |-> FALSE, canZoom |-> TRUE,
     disableControls |-> FALSE, rotate |-> 0,
     playing |-> playing, frameNumber |-> frameNumber,
     config |-> config, options |-> options]

\* the empty patch {}
NoPatch == [k \in {} |-> TRUE]

NoAnchor == [page |-> <<0, 0>>, pan |-> Origin]

Idle == Ran("none", FALSE, 0, FALSE, <<>>)

InitWith(configs, windows, optionSets, playings, frameNumbers, overlayLists) ==
    /\ \E config \in configs, window \in windows, options \in optionSets,
          playing \in playings, frameNumber \in frameNumbers :
            state = InitialState(config, window, options, playing, frameNumber)
    /\ start = Origin
    /\ hideControlsTimeout = 0
    /\ wheelTimeout = 0
    /\ timers = {}
    /\ overlays \in overlayLists
    /\ alive = TRUE
    /\ anchor = NoAnchor
    /\ gestures = 0
    /\ last = Idle
    /\ returned = NoPatch

Init == InitWith(Configs, Windows, OptionSets, BOOLEAN, FrameNumbers, OverlayLists)

----------------------------------------------------------------------------
(* One handler run: update(patch) and, with `resolver`, the tooltip resolver
   as post-commit callback.  `before` are the events the handler dispatched
   itself. *)

\* mutant: the handler calls update twice with its patch
UpdateTwice(handler, prevented, patch, resolver, before) ==
    /\ state' = Merge(Merge(state, patch), patch)
    /\ returned' = patch
    /\ last' = Ran(handler, prevented, 2, resolver,
                   before \o (IF resolver
                              THEN dispatchTooltipEvent(state', ProcessOverlays(state', overlays))
                                     \o dispatchTooltipEvent(state', ProcessOverlays(state', overlays))
                              ELSE <<>>))

Update(handler, prevented, patch, resolver, before) ==
    /\ state' = Merge(state, patch)
    /\ returned' = patch
    /\ last' = Ran(handler, prevented, 1, resolver,
                   before \o (IF resolver
                              THEN dispatchTooltipEvent(state', ProcessOverlays(state', overlays))
                              ELSE <<>>))

PageOf(e) == <<e.pageX, e.pageY>>

----------------------------------------------------------------------------
(* LookerElement.getEvents *)

\* mutant: Escape closes the controls and leaves the options panel
keydownPatchEscapeControls(key, st) ==
    CASE key = "ArrowDown" -> [rotate |-> st.rotate + 1]
      [] key = "ArrowUp" -> [rotate |-> IF st.rotate - 1 > 0 THEN st.rotate - 1 ELSE 0]
      [] key = "Escape" -> [showControls |-> FALSE]
      [] key = "s" -> [showOptions |-> st.showOptions, showControls |-> st.showControls]
      [] OTHER -> NoPatch

\* mutant: ArrowUp decrements without the floor at zero
keydownPatchNoFloor(key, st) ==
    CASE key = "ArrowDown" -> [rotate |-> st.rotate + 1]
      [] key = "ArrowUp" -> [rotate |-> st.rotate - 1]
      [] key = "Escape" -> [showControls |-> FALSE, showOptions |-> FALSE]
      [] key = "s" -> [showOptions |-> st.showOptions, showControls |-> st.showControls]
      [] OTHER -> NoPatch

keydownPatch(key, st) ==
    CASE key = "ArrowDown" -> [rotate |-> st.rotate + 1]
      [] key = "ArrowUp" -> [rotate |-> IF st.rotate - 1 > 0 THEN st.rotate - 1 ELSE 0]
      [] key = "Escape" -> [showControls |-> FALSE, showOptions |-> FALSE]
      [] key = "s" -> [showOptions |-> st.showOptions, showControls |-> st.showControls]
      [] OTHER -> NoPatch

keydown(key) ==
    /\ alive
    /\ key = "ArrowDown" => state.rotate < MaxRotate
    /\ IF key \in {"ArrowDown", "ArrowUp", "Escape", "s"}
       THEN Update("keydown", FALSE, keydownPatch(key, state),
                   key \in {"ArrowDown", "ArrowUp"}, <<>>)
       ELSE /\ last' = Ran("keydown", FALSE, 0, FALSE, <<>>)
            /\ returned' = NoPatch
            /\ UNCHANGED state
    /\ UNCHANGED <<start, hideControlsTimeout, wheelTimeout, timers, overlays,
                   alive, anchor, gestures>>

mouseenter ==
    /\ alive
    /\ Update("mouseenter", FALSE,
              IF state.config.thumbnail
              THEN [hovering |-> TRUE]
              ELSE [hovering |-> TRUE, showControls |-> TRUE],
              FALSE, <<Event("mouseenter", <<>>)>>)
    /\ UNCHANGED <<start, hideControlsTimeout, wheelTimeout, timers, overlays,
                   alive, anchor, gestures>>

\* mutant: leaving the viewer does not end a drag
mouseleaveKeepsPanning ==
    /\ alive
    /\ Update("mouseleave", FALSE, [hovering |-> FALSE, disableControls |-> FALSE],
              FALSE, <<Event("mouseleave", <<>>)>>)
    /\ UNCHANGED <<start, hideControlsTimeout, wheelTimeout, timers, overlays,
                   alive, anchor, gestures>>

mouseleave ==
    /\ alive
    /\ Update("mouseleave", FALSE,
              [hovering |-> FALSE, disableControls |-> FALSE, panning |-> FALSE],
              FALSE, <<Event("mouseleave", <<>>)>>)
    /\ UNCHANGED <<start, hideControlsTimeout, wheelTimeout, timers, overlays,
                   alive, anchor, gestures>>

\* mutant: the anchor is the page position alone
mousedownStartNoPan(e, pan) == <<Num(e.pageX), Num(e.pageY)>>

\* this.start = [event.pageX - x, event.pageY - y]
mousedownStart(e, pan) ==
    <<RatSub(Num(e.pageX), pan[1]), RatSub(Num(e.pageY), pan[2])>>

\* mutant: a pointer-down starts a drag in thumbnail mode too
mousedownInThumbnail(e) ==
    /\ alive
    /\ gestures < MaxGestures
    /\ gestures' = gestures + 1
    /\ start' = mousedownStart(e, state.pan)
    /\ anchor' = [page |-> PageOf(e), pan |-> state.pan]
    /\ Update("mousedown", TRUE, [panning |-> TRUE, canZoom |-> FALSE], FALSE, <<>>)
    /\ UNCHANGED <<hideControlsTimeout, wheelTimeout, timers, overlays, alive>>

mousedown(e) ==
    /\ alive
    /\ IF state.config.thumbnail
       THEN /\ Update("mousedown", FALSE, NoPatch, FALSE, <<>>)
            /\ UNCHANGED <<start, anchor, gestures>>
       ELSE /\ gestures < MaxGestures
            /\ gestures' = gestures + 1
            /\ start' = mousedownStart(e, state.pan)
            /\ anchor' = [page |-> PageOf(e), pan |-> state.pan]
            /\ Update("mousedown", TRUE, [panning |-> TRUE, canZoom |-> FALSE],
                      FALSE, <<>>)
    /\ UNCHANGED <<hideControlsTimeout, wheelTimeout, timers, overlays, alive>>

\* LookerElement.getPan([x, y])
getPan(page, s) ==
    <<RatSub(Num(page[1]), s[1]), RatSub(Num(page[2]), s[2])>>

mouseup(e) ==
    /\ alive
    /\ IF state.config.thumbnail \/ ~state.panning
       THEN Update("mouseup", FALSE, NoPatch, FALSE, <<>>)
       ELSE Update("mouseup", TRUE,
                   [panning |-> FALSE, pan |-> getPan(PageOf(e), start)],
                   FALSE, <<>>)
    /\ UNCHANGED <<start, hideControlsTimeout, wheelTimeout, timers, overlays,
                   alive, anchor, gestures>>

\* mutant: a drag does not move the view while a zoom is settling
mousemovePatchNotWhileWheeling(e, st, s) ==
    IF st.config.thumbnail \/ ~st.panning \/ st.wheeling
    THEN IF st.rotate # 0 THEN [rotate |-> 0] ELSE NoPatch
    ELSE [rotate |-> 0, pan |-> getPan(PageOf(e), s)]

mousemovePatch(e, st, s) ==
    IF st.config.thumbnail \/ ~st.panning
    THEN IF st.rotate # 0 THEN [rotate |-> 0] ELSE NoPatch
    ELSE [rotate |-> 0, pan |-> getPan(PageOf(e), s)]

\* mutant: the pending auto-hide timer is not cleared
mousemoveTimersNoClear(ts, handle) == setTimeout(ts, "hideControls", HideControlsDelay)

\* the timer table after mousemove cleared and rescheduled the auto-hide timer
mousemoveTimers(ts, handle) ==
    setTimeout(IF handle # 0 THEN clearTimeout(ts, handle) ELSE ts,
               "hideControls", HideControlsDelay)

mousemove(e) ==
    /\ alive
    /\ timers' = mousemoveTimers(timers, hideControlsTimeout)
    /\ hideControlsTimeout' =
          FreshId(IF hideControlsTimeout # 0
                  THEN clearTimeout(timers, hideControlsTimeout) ELSE timers)
    /\ Update("mousemove", FALSE, mousemovePatch(e, state, start), FALSE, <<>>)
    /\ UNCHANGED <<start, wheelTimeout, overlays, alive, anchor, gestures>>

dblclickPatch(st) ==
    IF st.config.thumbnail
    THEN NoPatch
    ELSE [scale |-> Num(1), pan |-> Origin, canZoom |-> TRUE]

dblclick ==
    /\ alive
    /\ Update("dblclick", FALSE, dblclickPatch(state), FALSE, <<>>)
    /\ UNCHANGED <<start, hideControlsTimeout, wheelTimeout, timers, overlays,
                   alive, anchor, gestures>>

\* mutant: the requested scale is committed unclamped
wheelScaleUnclamped(st, deltaY) ==
    IF deltaY < 0 THEN RatMul(st.scale, ZoomFactor) ELSE RatDiv(st.scale, ZoomFactor)

\* newScale = clampScale([width, height], dimensions,
\*                       event.deltaY < 0 ? scale * 1.15 : scale / 1.15)
wheelScale(st, deltaY) ==
    clampScale(<<st.windowBBox[3], st.windowBBox[4]>>, st.config.dimensions,
               IF deltaY < 0 THEN RatMul(st.scale, ZoomFactor)
                             ELSE RatDiv(st.scale, ZoomFactor))

\* mutant: the cursor is not taken relative to the window
wheelPanNoOffset(e, st, newScale) ==
    LET x == Num(e.x)
        y == Num(e.y)
        xs == RatDiv(RatSub(x, st.pan[1]), st.scale)
        ys == RatDiv(RatSub(y, st.pan[2]), st.scale)
    IN  <<RatSub(x, RatMul(xs, newScale)), RatSub(y, RatMul(ys, newScale))>>

\* pan: [x - xs * newScale, y - ys * newScale], the cursor taken relative to
\* the window's top-left corner
wheelPan(e, st, newScale) ==
    LET x == Num(e.x - st.windowBBox[1])
        y == Num(e.y - st.windowBBox[2])
        xs == RatDiv(RatSub(x, st.pan[1]), st.scale)
        ys == RatDiv(RatSub(y, st.pan[2]), st.scale)
    IN  <<RatSub(x, RatMul(xs, newScale)), RatSub(y, RatMul(ys, newScale))>>

\* mutant: the zoom does not clear canZoom
wheelPatchKeepsCanZoom(e, st, newScale) ==
    [pan |-> wheelPan(e, st, newScale), scale |-> newScale,
     cursorCoordinates |-> PageOf(e), wheeling |-> TRUE]

wheelPatch(e, st, newScale) ==
    [pan |-> wheelPan(e, st, newScale), scale |-> newScale, canZoom |-> FALSE,
     cursorCoordinates |-> PageOf(e), wheeling |-> TRUE]

\* mutant: the pending wheel-settle timer is not cleared
wheelTimersNoClear(ts, handle) == setTimeout(ts, "wheel", WheelDelay)

\* the timer table after wheel cleared and rescheduled the wheel-settle timer
wheelTimers(ts, handle) ==
    setTimeout(IF handle # 0 THEN clearTimeout(ts, handle) ELSE ts,
               "wheel", WheelDelay)

\* mutant: the early return is missing
wheelNoOpNever(st, deltaY) == FALSE

\* if (scale === newScale) { return {}; }
wheelNoOp(st, deltaY) == st.scale = wheelScale(st, deltaY)

wheel(e, deltaY) ==
    /\ alive
    /\ IF state.config.thumbnail
       THEN /\ Update("wheel", FALSE, NoPatch, TRUE, <<>>)
            /\ UNCHANGED <<wheelTimeout, timers, gestures>>
       ELSE IF wheelNoOp(state, deltaY)
            THEN /\ Update("wheel", TRUE, NoPatch, TRUE, <<>>)
                 /\ UNCHANGED <<wheelTimeout, timers, gestures>>
            ELSE /\ gestures < MaxGestures
                 /\ gestures' = gestures + 1
                 /\ timers' = wheelTimers(timers, wheelTimeout)
                 /\ wheelTimeout' =
                       FreshId(IF wheelTimeout # 0
                               THEN clearTimeout(timers, wheelTimeout) ELSE timers)
                 /\ Update("wheel", TRUE,
                           wheelPatch(e, state, wheelScale(state, deltaY)),
                           TRUE, <<>>)
    /\ UNCHANGED <<start, hideControlsTimeout, overlays, alive, anchor>>

----------------------------------------------------------------------------
(* The timer callbacks. *)

\* mutant: the controls are hidden whether the options panel is open or not
hideControlsPatchAlways(st) == [showControls |-> FALSE]

hideControlsPatch(st) ==
    IF ~st.showOptions THEN [showControls |-> FALSE] ELSE NoPatch

\* the callback mousemove scheduled
hideControlsCallback ==
    /\ \E t \in Pending("hideControls") :
          /\ t.remaining = 0
          /\ timers' = timers \ {t}
    /\ hideControlsTimeout' = 0
    /\ Update("hideControlsTimeout", FALSE, hideControlsPatch(state), FALSE, <<>>)
    /\ UNCHANGED <<start, wheelTimeout, overlays, alive, anchor, gestures>>

\* the callback wheel scheduled
wheelCallback ==
    /\ \E t \in Pending("wheel") :
          /\ t.remaining = 0
          /\ timers' = timers \ {t}
    /\ wheelTimeout' = 0
    /\ Update("wheelTimeout", FALSE, [wheeling |-> FALSE], FALSE, <<>>)
    /\ UNCHANGED <<start, hideControlsTimeout, overlays, alive, anchor, gestures>>

MinRemaining == CHOOSE r \in { t.remaining : t \in timers } :
                    \A t \in timers : r <= t.remaining

\* time passes, at most up to the next deadline; a due timer fires first
Advance ==
    /\ timers # {}
    /\ \A t \in timers : t.remaining > 0
    /\ LET d == IF TickMs < MinRemaining THEN TickMs ELSE MinRemaining
       IN  timers' = { [t EXCEPT !.remaining = t.remaining - d] : t \in timers }
    /\ last' = Idle
    /\ returned' = NoPatch
    /\ UNCHANGED <<state, start, hideControlsTimeout, wheelTimeout, overlays,
                   alive, anchor, gestures>>

----------------------------------------------------------------------------
(* CanvasElement.getEvents *)

\* mutant: the click selects in thumbnail mode too
canvasClickSelectInThumbnail(st, ovs) ==
    IF ovs # <<>>
    THEN <<Event("select", <<getSelectData(ovs[1], st)>>)>>
    ELSE <<>>

canvasClickSelect(st, ovs) ==
    IF ~st.config.thumbnail /\ ovs # <<>>
    THEN <<Event("select", <<getSelectData(ovs[1], st)>>)>>
    ELSE <<>>

canvasClick ==
    /\ alive
    /\ state' = Merge(state, [showOptions |-> FALSE])
    /\ returned' = [showOptions |-> FALSE]
    /\ last' = Ran("canvas.click", FALSE, 1, FALSE,
                   canvasClickSelect(state', ProcessOverlays(state', overlays)))
    /\ UNCHANGED <<start, hideControlsTimeout, wheelTimeout, timers, overlays,
                   alive, anchor, gestures>>

canvasMouseleave ==
    /\ alive
    /\ last' = Ran("canvas.mouseleave", FALSE, 0, FALSE, <<Event("tooltip", <<>>)>>)
    /\ returned' = NoPatch
    /\ UNCHANGED <<state, start, hideControlsTimeout, wheelTimeout, timers,
                   overlays, alive, anchor, gestures>>

canvasMousemovePatch(e, st) ==
    IF st.config.thumbnail THEN NoPatch ELSE [cursorCoordinates |-> PageOf(e)]

canvasMousemove(e) ==
    /\ alive
    /\ Update("canvas.mousemove", FALSE, canvasMousemovePatch(e, state), TRUE, <<>>)
    /\ UNCHANGED <<start, hideControlsTimeout, wheelTimeout, timers, overlays,
                   alive, anchor, gestures>>

----------------------------------------------------------------------------
(* The controls. *)

\* ControlsElement.getEvents().click
controlsClick ==
    /\ alive
    /\ Update("controls.click", FALSE,
              [showControls |-> FALSE, disableControls |-> TRUE, showOptions |-> FALSE],
              FALSE, <<>>)
    /\ UNCHANGED <<start, hideControlsTimeout, wheelTimeout, timers, overlays,
                   alive, anchor, gestures>>

\* OptionsButtonElement.getEvents().click
optionsButtonClick ==
    /\ alive
    /\ Update("optionsButton.click", FALSE, [showOptions |-> ~state.showOptions],
              FALSE, <<>>)
    /\ UNCHANGED <<start, hideControlsTimeout, wheelTimeout, timers, overlays,
                   alive, anchor, gestures>>

\* ShowTooltipOptionElement.getEvents().click
showTooltipOptionClick ==
    /\ alive
    /\ Update("showTooltipOption.click", TRUE,
              [options |-> [showTooltip |-> ~state.options.showTooltip]],
              FALSE,
              <<Event("options", <<[showTooltip |-> ~state.options.showTooltip]>>)>>)
    /\ UNCHANGED <<start, hideControlsTimeout, wheelTimeout, timers, overlays,
                   alive, anchor, gestures>>

----------------------------------------------------------------------------
(* Calls of the overlays' methods with the current state, and the options
   panel handing in another coloring. *)

\* overlays[i].isShown(state)
overlayIsShown(i) ==
    /\ alive
    /\ i \in DOMAIN overlays
    /\ last' = Ran("overlay.isShown", FALSE, 0, FALSE, <<>>)
    /\ returned' = IF isShownRaises(state, overlays[i])
                   THEN [thrown |-> TRUE]
                   ELSE [value |-> isShown(state, overlays[i])]
    /\ UNCHANGED <<state, start, hideControlsTimeout, wheelTimeout, timers,
                   overlays, alive, anchor, gestures>>

\* overlays[i].getColor(state)
overlayGetColor(i) ==
    /\ alive
    /\ i \in DOMAIN overlays
    /\ last' = Ran("overlay.getColor", FALSE, 0, FALSE, <<>>)
    /\ overlays' = [overlays EXCEPT ![i] = CoordinateOverlay_getColor(@, state.options)]
    /\ returned' = [value |-> overlays'[i].color]
    /\ UNCHANGED <<state, start, hideControlsTimeout, wheelTimeout, timers,
                   alive, anchor, gestures>>

\* the options panel supplies another coloring
coloringInput(coloring) ==
    /\ alive
    /\ coloring # state.options.coloring
    /\ Update("options", FALSE, [options |-> [coloring |-> coloring]], FALSE, <<>>)
    /\ UNCHANGED <<start, hideControlsTimeout, wheelTimeout, timers, overlays,
                   alive, anchor, gestures>>

----------------------------------------------------------------------------
(* Teardown of the viewer: the element is removed and receives no further
   events.  LookerElement offers nothing that clears its two timers. *)

Teardown ==
    /\ alive
    /\ alive' = FALSE
    /\ last' = Idle
    /\ returned' = NoPatch
    /\ UNCHANGED <<state, start, hideControlsTimeout, wheelTimeout, timers,
                   overlays, anchor, gestures>>

----------------------------------------------------------------------------

Next ==
    \/ \E key \in Keys : keydown(key)
    \/ mouseenter
    \/ mouseleave
    \/ \E e \in MouseEvents : mousedown(e)
    \/ \E e \in MouseEvents : mouseup(e)
    \/ \E e \in MouseEvents : mousemove(e)
    \/ dblclick
    \/ \E e \in MouseEvents, deltaY \in DeltaYs : wheel(e, deltaY)
    \/ hideControlsCallback
    \/ wheelCallback
    \/ Advance
    \/ canvasClick
    \/ canvasMouseleave
    \/ \E e \in MouseEvents : canvasMousemove(e)
    \/ controlsClick
    \/ optionsButtonClick
    \/ showTooltipOptionClick
    \/ \E i \in 1..MaxOverlays : overlayIsShown(i)
    \/ \E i \in 1..MaxOverlays : overlayGetColor(i)
    \/ \E coloring \in Colorings : coloringInput(coloring)
    \/ Teardown

Spec == Init /\ [][Next]_vars

----------------------------------------------------------------------------
(* The specifications the properties are checked under: each is the viewer
   under one kind of use.  The handlers are the same in all of them. *)

Pointer == [x |-> 100, y |-> 100, pageX |-> 100, pageY |-> 100]

Zoomable == [thumbnail |-> FALSE, dimensions |-> <<600, 400>>]

Plain == Options(TRUE, <<>>, {})

\* panning and zooming with the pointer, faster than any timer fires
InitPanZoom ==
    InitWith(Configs, Windows, {Plain}, {FALSE}, {0}, {<<OverlayC, OverlayB>>})

NextPanZoom ==
    \/ \E e \in MouseEvents : mousedown(e)
    \/ \E e \in MouseEvents : mouseup(e)
    \/ \E e \in MouseEvents : mousemove(e)
    \/ dblclick
    \/ mouseleave
    \/ \E e \in MouseEvents, deltaY \in DeltaYs : wheel(e, deltaY)

SpecPanZoom == InitPanZoom /\ [][NextPanZoom]_vars

\* the two debounced timers, with the pointer at one place
InitTimers ==
    InitWith(Configs, {<<0, 0, 400, 300>>}, {Plain}, {FALSE}, {0}, {<<OverlayB>>})

NextTimers ==
    \/ mousemove(Pointer)
    \/ \E deltaY \in DeltaYs : wheel(Pointer, deltaY)
    \/ hideControlsCallback
    \/ wheelCallback
    \/ Advance
    \/ mouseenter
    \/ optionsButtonClick
    \/ Teardown

SpecTimers == InitTimers /\ [][NextTimers]_vars

\* the same under the event loop's scheduling: time passes, and a timer that
\* is due runs its callback
SpecTimersFair ==
    /\ SpecTimers
    /\ WF_vars(Advance)
    /\ WF_vars(hideControlsCallback)
    /\ WF_vars(wheelCallback)

\* the tooltip and the selection over the overlays of a frame
InitTooltip ==
    InitWith({c \in Configs : c.dimensions = <<440, 300>>}, {<<20, 10, 400, 300>>},
             OptionSets, BOOLEAN, FrameNumbers, OverlayLists)

NextTooltip ==
    \/ \E key \in Keys : keydown(key)
    \/ \E deltaY \in DeltaYs : wheel(Pointer, deltaY)
    \/ canvasMousemove(Pointer)
    \/ canvasMouseleave
    \/ canvasClick
    \/ showTooltipOptionClick
    \/ mouseenter
    \/ dblclick

SpecTooltip == InitTooltip /\ [][NextTooltip]_vars

\* cycling through the overlays with the keyboard while moving and dragging
InitRotate ==
    InitWith(Configs, {<<0, 0, 400, 300>>}, {Plain}, {FALSE}, {0},
             {<<OverlayA, OverlayB>>})

NextRotate ==
    \/ \E key \in Keys : keydown(key)
    \/ \E e \in MouseEvents : mousemove(e)
    \/ \E e \in MouseEvents : mousedown(e)
    \/ \E e \in MouseEvents : mouseup(e)
    \/ mouseleave

SpecRotate == InitRotate /\ [][NextRotate]_vars

\* the overlays' own methods, under every kind of visibility options
FilterOptions ==
    { Options(TRUE, activePaths, filter) :
        activePaths \in { <<>>, <<{}>>, <<{"ground_truth"}>>,
                          <<{"ground_truth", "predictions"}>> },
        filter \in { {}, {"ground_truth"}, {"ground_truth", "predictions"} } }

InitOverlay ==
    InitWith({Zoomable}, {<<0, 0, 400, 300>>}, FilterOptions, {FALSE}, {0},
             { <<OverlayA>>, <<OverlayD>>, <<OverlayE>>, <<OverlayB, OverlayD>> })

NextOverlay ==
    \/ \E i \in 1..MaxOverlays : overlayIsShown(i)
    \/ \E i \in 1..MaxOverlays : overlayGetColor(i)
    \/ \E coloring \in Colorings : coloringInput(coloring)

SpecOverlay == InitOverlay /\ [][NextOverlay]_vars

\* clicks on the canvas and on the controls
InitCanvas ==
    InitWith({c \in Configs : c.dimensions = <<600, 400>>}, {<<0, 0, 400, 300>>},
             OptionSets, {FALSE}, FrameNumbers, OverlayLists)

NextCanvas ==
    \/ canvasClick
    \/ optionsButtonClick
    \/ controlsClick
    \/ mouseenter
    \/ canvasMouseleave
    \/ \E e \in MouseEvents : canvasMousemove(e)
    \/ \E key \in Keys : keydown(key)

SpecCanvas == InitCanvas /\ [][NextCanvas]_vars

\* the controls and the options panel, with the options button within reach
\* only while the controls are shown
InitControls ==
    InitWith({c \in Configs : c.dimensions = <<600, 400>>}, {<<0, 0, 400, 300>>},
             {Plain}, {FALSE}, {0}, {<<OverlayB>>})

optionsButtonClickShown == state.showControls /\ optionsButtonClick

NextControls ==
    \/ mouseenter
    \/ mouseleave
    \/ mousemove(Pointer)
    \/ hideControlsCallback
    \/ Advance
    \/ \E key \in Keys : keydown(key)
    \/ controlsClick
    \/ canvasClick
    \/ optionsButtonClickShown

SpecControls == InitControls /\ [][NextControls]_vars

\* drags, zooms and resets among all the other events of the viewer and its
\* two timers
InitGestures ==
    InitWith({c \in Configs : c.dimensions = <<440, 300>>}, {<<0, 0, 400, 300>>},
             {Plain}, {FALSE}, {0}, {<<OverlayB>>})

Elsewhere == [x |-> 150, y |-> 120, pageX |-> 150, pageY |-> 120]

NextGestures ==
    \/ mousedown(Pointer)
    \/ \E e \in {Pointer, Elsewhere} : mouseup(e)
    \/ \E e \in {Pointer, Elsewhere} : mousemove(e)
    \/ \E deltaY \in DeltaYs : wheel(Pointer, deltaY)
    \/ dblclick
    \/ mouseenter
    \/ mouseleave
    \/ controlsClick
    \/ \E key \in Keys : keydown(key)
    \/ hideControlsCallback
    \/ wheelCallback
    \/ Advance

SpecGestures == InitGestures /\ [][NextGestures]_vars

----------------------------------------------------------------------------
(* Properties. *)

Thumbnail == state.config.thumbnail

\* the cursor of a mouse event relative to the window's top-left corner
Cursor(e, st) == <<Num(e.x - st.windowBBox[1]), Num(e.y - st.windowBBox[2])>>

\* the unscaled point under cursor c: (c - pan) / scale
Unscaled(c, pan, scale) ==
    <<RatDiv(RatSub(c[1], pan[1]), scale), RatDiv(RatSub(c[2], pan[2]), scale)>>

\* C1: a wheel event that changes the scale keeps the unscaled point under
\* the cursor (event position minus window top-left) where it was:
\* (c - pan) / scale = (c - pan') / scale'.
C1_ZoomAtCursor ==
    [][\A e \in MouseEvents, deltaY \in DeltaYs :
          (wheel(e, deltaY) /\ state'.scale # state.scale)
              => Unscaled(Cursor(e, state), state.pan, state.scale)
                   = Unscaled(Cursor(e, state), state'.pan, state'.scale)]_vars

\* a zoom has acted on a view that was dragged before, in a window whose
\* top-left corner is not the page's
C1_Witness ==
    /\ last.handler = "wheel"
    /\ state.wheeling
    /\ state.scale # Num(1)
    /\ anchor # NoAnchor
    /\ state.pan[1][2] # 1
    /\ state.windowBBox[1] # 0

\* C2: while panning, a pointer-move or pointer-up at page position p commits
\* pan = p - (p0 - P0) for the page position p0 and the pan P0 of the last
\* pointer-down, whatever came in between; at p = p0 the pan is P0 again.
C2_PanAnchored ==
    [][\A e \in MouseEvents :
          ((mousemove(e) \/ mouseup(e)) /\ state.panning /\ ~Thumbnail)
              => /\ state'.pan =
                      <<RatSub(Num(e.pageX), RatSub(Num(anchor.page[1]), anchor.pan[1])),
                        RatSub(Num(e.pageY), RatSub(Num(anchor.page[2]), anchor.pan[2]))>>
                 /\ PageOf(e) = anchor.page => state'.pan = anchor.pan]_vars

\* the drag of the example: from (100,100) with pan (0,0) to (150,120)
C2_Witness ==
    /\ last.handler = "mousemove"
    /\ state.panning
    /\ anchor = [page |-> <<100, 100>>, pan |-> Origin]
    /\ state.pan = <<Num(50), Num(20)>>

\* the drag of a view whose pan was not the origin, back at its start
C2_WitnessBack ==
    /\ last.handler = "mouseup"
    /\ anchor.pan # Origin
    /\ state.pan = anchor.pan

C3_WitnessClamped ==
    /\ last.handler = "wheel"
    /\ state.wheeling
    /\ state.scale = MaxScale(<<state.windowBBox[3], state.windowBBox[4]>>,
                              state.config.dimensions)

\* C4 as stated: a wheel event whose clamped new scale equals the current
\* scale leaves the state and the wheel-settle timer alone and has no side
\* effects at all.
C4_NoOpWheelNoSideEffects ==
    [][\A e \in MouseEvents, deltaY \in DeltaYs :
          (wheel(e, deltaY) /\ ~Thumbnail /\ wheelScale(state, deltaY) = state.scale)
              => /\ UNCHANGED <<state, start, hideControlsTimeout, wheelTimeout, timers>>
                 /\ ~last'.prevented
                 /\ last'.dispatched = <<>>]_vars

\* C4, amended: such a wheel event leaves the state (pan, scale, canZoom,
\* cursorCoordinates, wheeling and all the rest), the element's fields and
\* the pending timers with their deadlines unchanged; what it does is call
\* event.preventDefault() and run the tooltip resolver on the unchanged state.
C4_NoOpWheelFrame ==
    [][\A e \in MouseEvents, deltaY \in DeltaYs :
          (wheel(e, deltaY) /\ ~Thumbnail /\ wheelScale(state, deltaY) = state.scale)
              => /\ UNCHANGED <<state, start, hideControlsTimeout, wheelTimeout, timers>>
                 /\ last' = Ran("wheel", TRUE, 1, TRUE,
                                dispatchTooltipEvent(state, ProcessOverlays(state, overlays)))]_vars

\* a wheel event without effect has come in while the settle timer of an
\* earlier one was pending, and the timer has kept its deadline
C4_Witness ==
    /\ last.handler = "wheel"
    /\ ~Thumbnail
    /\ state.wheeling
    /\ \E t \in Pending("wheel") : t.id = wheelTimeout /\ t.remaining < WheelDelay

EventsNamed(name) ==
    { i \in DOMAIN last.dispatched : last.dispatched[i].name = name }

\* C5: while options.showTooltip is false no handler dispatches a tooltip
\* event, not even one with a null payload.
C5_TooltipSuppressed ==
    ~state.options.showTooltip => EventsNamed("tooltip") = {}

InList(o) == \E i \in DOMAIN overlays : overlays[i] = o

C6_WitnessSelect ==
    /\ overlays = <<OverlayC, OverlayB, OverlayA>>
    /\ last.handler = "canvas.click"
    /\ \E i \in EventsNamed("select") : last.dispatched[i].detail[1].id = "A"

\* C7: no select event is about an overlay that reports NONE at the cursor.
C7_NoSelectOfNone ==
    \A i \in EventsNamed("select") :
        \A k \in DOMAIN overlays :
            overlays[k].id = last.dispatched[i].detail[1].id
                => overlays[k].contains # NONE

StateMutating ==
    { "mousedown", "mousemove", "mouseup", "wheel", "dblclick", "keydown",
      "mouseenter", "mouseleave", "canvas.click" }

\* C8: every state-mutating handler runs the tooltip resolver as the
\* post-commit step of its update, unless playing in thumbnail mode.
C8_ResolverAfterEveryHandler ==
    (/\ last.handler \in StateMutating
     /\ last.commits > 0
     /\ ~(state.playing /\ Thumbnail))
        => last.resolver

\* C9: at most one auto-hide timer and at most one wheel-settle timer is
\* pending at any moment, and a pointer-move leaves exactly one auto-hide
\* timer, due HideControlsDelay after it.
C9_OneTimerEach ==
    /\ [](/\ Cardinality(Pending("hideControls")) <= 1
          /\ Cardinality(Pending("wheel")) <= 1)
    /\ [][(\E e \in MouseEvents : mousemove(e))
            => \E t \in timers' :
                  /\ PendingIn(timers', "hideControls") = {t}
                  /\ t.remaining = HideControlsDelay
                  /\ t.id = hideControlsTimeout']_vars

\* a pointer-move has rescheduled the auto-hide timer part of the way through
\* a wheel-settle delay
C9_Witness ==
    /\ last.handler = "mousemove"
    /\ Cardinality(Pending("hideControls")) = 1
    /\ \E t \in Pending("wheel") : t.remaining < WheelDelay

\* C10: once the viewer is torn down no timer callback patches the state.
C10_NoPatchAfterTeardown ==
    [][~alive => state' = state]_vars

\* C11: the rotate index is never negative: ArrowDown commits rotate + 1,
\* ArrowUp commits max(rotate - 1, 0), and after every pointer-move on the
\* viewer, panning or not, thumbnail or not, rotate is 0.
C11_RotateIndex ==
    /\ [](state.rotate >= 0)
    /\ [][keydown("ArrowDown") => state'.rotate = state.rotate + 1]_vars
    /\ [][keydown("ArrowUp")
            => state'.rotate = (IF state.rotate = 0 THEN 0 ELSE state.rotate - 1)]_vars
    /\ [][(\E e \in MouseEvents : mousemove(e)) => state'.rotate = 0]_vars

\* a pointer-move that was not a drag has cleared a rotate index left by
\* ArrowDown
C11_Witness ==
    /\ last.handler = "mousemove"
    /\ ~state.panning
    /\ returned = [rotate |-> 0]
    /\ state.rotate = 0

\* a pointer-move in thumbnail mode has cleared a rotate index
C11_WitnessThumbnail ==
    /\ last.handler = "mousemove"
    /\ Thumbnail
    /\ returned = [rotate |-> 0]

\* C12: the auto-hide timer fires when HideControlsDelay has passed since the
\* last pointer-move, and only then; its firing commits showControls = false
\* if showOptions is false and nothing if it is true, and leaves no auto-hide
\* timer behind; a pointer-move puts the deadline off by the full delay; and
\* a timer that has started to run down leads to its firing or to a
\* pointer-move that restarts it.
C12_AutoHide ==
    /\ [][hideControlsCallback
            => /\ \A t \in Pending("hideControls") : t.remaining = 0
               /\ state' = [state EXCEPT !.showControls =
                                IF state.showOptions THEN state.showControls ELSE FALSE]
               /\ PendingIn(timers', "hideControls") = {}]_vars
    /\ [][(\E e \in MouseEvents : mousemove(e))
            => \A t \in PendingIn(timers', "hideControls") :
                  t.remaining = HideControlsDelay]_vars
    /\ (\E t \in Pending("hideControls") : t.remaining < HideControlsDelay)
          ~> (\/ last.handler = "hideControlsTimeout"
              \/ \E t \in Pending("hideControls") : t.remaining = HideControlsDelay)

\* the timer has fired with the options panel open and left the controls shown
C12_Witness ==
    /\ last.handler = "hideControlsTimeout"
    /\ returned = NoPatch
    /\ state.showOptions
    /\ state.showControls
    /\ Pending("hideControls") = {}

\* the timer has fired with the options panel closed and hidden the controls
C12_WitnessHidden ==
    /\ last.handler = "hideControlsTimeout"
    /\ returned = [showControls |-> FALSE]
    /\ state.hovering
    /\ ~state.showControls

\* C13: a wheel event that changes the scale commits wheeling = true and
\* leaves one settle timer with the full WheelDelay to run; wheeling is true
\* exactly while a settle timer is pending, and becomes false only by the
\* callback of a timer that is due; and wheeling = true leads to
\* wheeling = false.
C13_WheelSettle ==
    /\ [][\A e \in MouseEvents, deltaY \in DeltaYs :
            (wheel(e, deltaY) /\ state'.scale # state.scale)
                => /\ state'.wheeling
                   /\ \E t \in timers' :
                         /\ PendingIn(timers', "wheel") = {t}
                         /\ t.remaining = WheelDelay]_vars
    /\ [](state.wheeling <=> Pending("wheel") # {})
    /\ [][(state.wheeling /\ ~state'.wheeling)
            => /\ last'.handler = "wheelTimeout"
               /\ \A t \in Pending("wheel") : t.remaining = 0]_vars
    /\ state.wheeling ~> ~state.wheeling

\* the settle timer has fired after a zoom
C13_Witness ==
    /\ last.handler = "wheelTimeout"
    /\ returned = [wheeling |-> FALSE]
    /\ ~state.wheeling
    /\ RatLess(Num(1), state.scale)
    /\ Pending("wheel") = {}

\* C14: when the resolver has run on a state with showTooltip true that is
\* not playing in thumbnail mode, it has dispatched exactly one tooltip event:
\* the PointInfo of the first-ranked overlay with the state's frame number
\* and cursorCoordinates if that overlay reports BORDER or CONTENT, null
\* otherwise and for an empty list; playing in thumbnail mode it has
\* dispatched nothing.
C14_TooltipPayload ==
    last.resolver =>
        LET ovs == ProcessOverlays(state, overlays)
        IN  IF state.playing /\ Thumbnail
            THEN last.dispatched = <<>>
            ELSE state.options.showTooltip =>
                    /\ Len(last.dispatched) = 1
                    /\ last.dispatched[1].name = "tooltip"
                    /\ last.dispatched[1].detail =
                          (IF ovs = <<>> THEN <<>>
                           ELSE IF ovs[1].contains = NONE THEN <<>>
                           ELSE <<[id |-> ovs[1].id, field |-> ovs[1].field,
                                   frameNumber |-> state.frameNumber,
                                   coordinates |-> state.cursorCoordinates]>>)

\* the resolver has dispatched an overlay's PointInfo with the frame number
\* and the coordinates of a cursor that has moved
C14_Witness ==
    /\ last.resolver
    /\ Len(last.dispatched) = 1
    /\ last.dispatched[1].detail # <<>>
    /\ last.dispatched[1].detail[1].frameNumber = 7
    /\ last.dispatched[1].detail[1].coordinates = <<100, 100>>

\* the resolver has dispatched null for an overlay that reports NONE
C14_WitnessNull ==
    /\ last.resolver
    /\ overlays = <<OverlayC>>
    /\ state.frameNumber = 7
    /\ last.dispatched = <<Event("tooltip", <<>>)>>

\* the resolver has dispatched nothing while playing in thumbnail mode
C14_WitnessPlaying ==
    /\ last.resolver
    /\ state.playing /\ Thumbnail /\ state.options.showTooltip
    /\ last.dispatched = <<>>

\* what isShown is to answer for overlay o under options opts
Visible(opts, o) ==
    IF opts.activePaths # <<>> /\ ~(o.field \in opts.activePaths[1]) THEN FALSE
    ELSE IF o.field \in opts.filter THEN o.passes
    ELSE TRUE

\* C15: isShown answers false when activePaths is set and lacks the overlay's
\* field, else what the field's filter predicate answers for the label when
\* there is one, else true; and it changes neither the state nor the overlay.
C15_IsShown ==
    [][\A i \in 1..MaxOverlays :
          (overlayIsShown(i) /\ ~overlays[i].raises)
              => /\ returned' = [value |-> Visible(state.options, overlays[i])]
                 /\ UNCHANGED <<state, overlays>>]_vars

\* isShown has answered false for a label its field's predicate rejects
C15_Witness ==
    /\ last.handler = "overlay.isShown"
    /\ overlays = <<OverlayD>>
    /\ state.options.activePaths = <<{"ground_truth"}>>
    /\ state.options.filter = {"ground_truth"}
    /\ returned = [value |-> FALSE]

\* isShown has answered false for a field that activePaths lacks
C15_WitnessPaths ==
    /\ last.handler = "overlay.isShown"
    /\ overlays = <<OverlayA>>
    /\ state.options.activePaths = <<{}>>
    /\ returned = [value |-> FALSE]

\* C16: when the filter predicate raises for a label whose field is in
\* activePaths, isShown answers true and raises nothing.
C16_FailOpen ==
    [][\A i \in 1..MaxOverlays :
          (/\ overlayIsShown(i)
           /\ overlays[i].raises
           /\ overlays[i].field \in state.options.filter
           /\ state.options.activePaths # <<>>
           /\ overlays[i].field \in state.options.activePaths[1])
              => returned' = [value |-> TRUE]]_vars

\* C17: the color cache of an overlay is written at most once, and a getColor
\* call on an overlay whose cache is set returns the cached color and leaves
\* the overlay as it is, whatever options.coloring is by then.
C17_ColorCachedOnce ==
    /\ [](\A i \in DOMAIN overlays : overlays[i].colorWrites <= 1)
    /\ [][\A i \in 1..MaxOverlays :
            (overlayGetColor(i) /\ overlays[i].colorWrites > 0)
                => /\ returned' = [value |-> overlays[i].color]
                   /\ overlays' = overlays]_vars

\* getColor has returned the cached color under a coloring that would give
\* another one
C17_Witness ==
    /\ last.handler = "overlay.getColor"
    /\ overlays[1].colorWrites = 1
    /\ returned = [value |-> overlays[1].color]
    /\ overlays[1].color #
          getColor(state.options.coloring.pool, state.options.coloring.seed,
                   IF state.options.coloring.byLabel
                   THEN overlays[1].label ELSE overlays[1].field)
    /\ Len(overlays) = 1

\* C18: a click on the canvas commits showOptions = false and nothing else,
\* and after the commit dispatches exactly one select event with the id, the
\* field and the state's frame number of the first overlay of the list if
\* the viewer is not in thumbnail mode and the list is not empty, and no
\* event otherwise.
C18_CanvasClick ==
    [][canvasClick
        => /\ state' = [state EXCEPT !.showOptions = FALSE]
           /\ last'.commits = 1
           /\ LET ovs == ProcessOverlays(state', overlays)
              IN  last'.dispatched =
                    (IF ~state'.config.thumbnail /\ Len(ovs) > 0
                     THEN <<[name |-> "select",
                             detail |-> <<[id |-> ovs[1].id, field |-> ovs[1].field,
                                           frameNumber |-> state'.frameNumber]>>]>>
                     ELSE <<>>)]_vars

\* a click has selected B, the first overlay shown, on frame 7
C18_Witness ==
    /\ last.handler = "canvas.click"
    /\ overlays = <<OverlayD, OverlayB>>
    /\ state.showControls
    /\ ~state.showOptions
    /\ last.dispatched =
          <<Event("select", <<[id |-> "B", field |-> "predictions", frameNumber |-> 7]>>)>>

\* a click in thumbnail mode has selected nothing
C18_WitnessThumbnail ==
    /\ last.handler = "canvas.click"
    /\ Thumbnail
    /\ overlays # <<>>
    /\ last.dispatched = <<>>

\* C19: in thumbnail mode pointer-down, pointer-up, pointer-move, wheel and
\* double-click leave pan, scale, panning, canZoom and wheeling as they are,
\* set no drag anchor and schedule no wheel-settle timer; panning is never
\* true in thumbnail mode.
C19_ThumbnailFrozen ==
    /\ [](Thumbnail => ~state.panning)
    /\ [][(/\ Thumbnail
           /\ \/ \E e \in MouseEvents : mousedown(e) \/ mouseup(e) \/ mousemove(e)
              \/ \E e \in MouseEvents, deltaY \in DeltaYs : wheel(e, deltaY)
              \/ dblclick)
            => /\ state'.pan = state.pan
               /\ state'.scale = state.scale
               /\ state'.panning = state.panning
               /\ state'.canZoom = state.canZoom
               /\ state'.wheeling = state.wheeling
               /\ start' = start
               /\ wheelTimeout' = wheelTimeout
               /\ PendingIn(timers', "wheel") = Pending("wheel")]_vars

\* a wheel event has come in in thumbnail mode, after a pointer-move, and
\* has patched nothing
C19_Witness ==
    /\ Thumbnail
    /\ last.handler = "wheel"
    /\ returned = NoPatch
    /\ hideControlsTimeout # 0
    /\ state.scale = Num(1)
    /\ ~state.wheeling
    /\ timers # {}

\* a pointer-down has come in in thumbnail mode and has set no anchor
C19_WitnessDown ==
    /\ Thumbnail
    /\ last.handler = "mousedown"
    /\ start = Origin
    /\ ~state.panning
    /\ state.canZoom

TimerCallbacks == { "hideControlsTimeout", "wheelTimeout" }

C20_WitnessWheel ==
    /\ last.handler = "wheel"
    /\ last.commits = 1
    /\ returned # NoPatch
    /\ state.scale = returned.scale

\* C21: with the options button clicked only while showControls is true,
\* showOptions = true implies showControls = true in every state: neither
\* the auto-hide timer nor Escape nor a click on the controls or on the
\* canvas leaves the options panel open with the controls hidden.
C21_OptionsWithinControls ==
    state.showOptions => state.showControls

\* the auto-hide timer has fired on an open options panel, after the pointer
\* had left the viewer, and the controls are still shown
C21_Witness ==
    /\ last.handler = "hideControlsTimeout"
    /\ ~state.hovering
    /\ state.showOptions
    /\ state.showControls

\* Escape has closed the controls and the options panel together
C21_WitnessEscape ==
    /\ last.handler = "keydown"
    /\ returned = [showControls |-> FALSE, showOptions |-> FALSE]
    /\ state.hovering
    /\ ~state.showOptions
    /\ ~state.showControls

\* C22: a wheel event that changes the scale during a drag leaves the drag
\* anchor and panning as they are, and the pointer-move right after it at
\* page position p commits pan = p - (p0 - P0) for the page position p0 and
\* the pan P0 of the pointer-down, not the pan the wheel event computed,
\* while the scale stays the wheel's.
C22_WheelDuringDrag ==
    /\ [][\A e \in MouseEvents, deltaY \in DeltaYs :
            (wheel(e, deltaY) /\ state.panning /\ state'.scale # state.scale)
                => /\ start' = start
                   /\ state'.panning
                   /\ state'.pan = wheelPan(e, state, state'.scale)]_vars
    /\ [][\A e \in MouseEvents :
            (/\ mousemove(e)
             /\ state.panning
             /\ last.handler = "wheel"
             /\ last.commits = 1
             /\ returned # NoPatch)
                => /\ state'.pan =
                        <<RatSub(Num(e.pageX), RatSub(Num(anchor.page[1]), anchor.pan[1])),
                          RatSub(Num(e.pageY), RatSub(Num(anchor.page[2]), anchor.pan[2]))>>
                   /\ state'.scale = returned.scale]_vars

\* a drag from (100,100) that started at pan (0,0) was zoomed on its way and
\* then moved to (150,120): the pan is (50,20) at the zoomed scale
C22_Witness ==
    /\ last.handler = "mousemove"
    /\ state.panning
    /\ anchor = [page |-> <<100, 100>>, pan |-> Origin]
    /\ gestures = 2
    /\ RatLess(Num(1), state.scale)
    /\ state.pan = <<Num(50), Num(20)>>

\* C23: the pan changes only by a pointer-move or pointer-up while panning,
\* by a wheel event that changes the scale, or by a double-click, and the
\* scale only by the last two; a mouse leave commits panning = false,
\* hovering = false and disableControls = false and nothing else; and while
\* panning is false, which only a pointer-down ends, pointer-move and
\* pointer-up leave the pan as it is.
C23_PanScaleFrame ==
    /\ [][state'.pan # state.pan
            => \/ last'.handler \in {"mousemove", "mouseup"} /\ state.panning
               \/ last'.handler = "wheel" /\ state'.scale # state.scale
               \/ last'.handler = "dblclick"]_vars
    /\ [][state'.scale # state.scale => last'.handler \in {"wheel", "dblclick"}]_vars
    /\ [][last'.handler = "mouseleave"
            => state' = [state EXCEPT !.panning = FALSE, !.hovering = FALSE,
                                      !.disableControls = FALSE]]_vars
    /\ [][(~state.panning /\ last'.handler \in {"mousemove", "mouseup"})
            => state'.pan = state.pan]_vars
    /\ [][(~state.panning /\ state'.panning) => last'.handler = "mousedown"]_vars

\* a pointer-up has come in after the pointer had left the viewer during a
\* drag, and has patched nothing
C23_Witness ==
    /\ last.handler = "mouseup"
    /\ returned = NoPatch
    /\ ~Thumbnail
    /\ anchor # NoAnchor
    /\ state.showControls
    /\ ~state.hovering
    /\ ~state.panning
    /\ state.pan = anchor.pan

\* C24: a pointer-down outside thumbnail mode and a wheel event that changes
\* the scale commit canZoom = false; canZoom goes from false to true only by
\* a double-click outside thumbnail mode, and such a double-click commits
\* canZoom = true, scale = 1 and pan = [0, 0].
C24_CanZoom ==
    /\ [][(last'.handler = "mousedown" /\ ~Thumbnail) => ~state'.canZoom]_vars
    /\ [][(last'.handler = "wheel" /\ state'.scale # state.scale)
            => ~state'.canZoom]_vars
    /\ [][(~state.canZoom /\ state'.canZoom)
            => last'.handler = "dblclick" /\ ~Thumbnail]_vars
    /\ [][(last'.handler = "dblclick" /\ ~Thumbnail)
            => /\ state'.canZoom
               /\ state'.scale = Num(1)
               /\ state'.pan = Origin]_vars

\* a double-click has reset a view that was dragged and zoomed, after the
\* zoom had settled
C24_Witness ==
    /\ last.handler = "dblclick"
    /\ gestures = MaxGestures
    /\ anchor # NoAnchor
    /\ ~state.wheeling
    /\ state.canZoom
    /\ state.pan = Origin

\* canZoom has stayed false through the settle timer's firing
C24_WitnessStays ==
    /\ last.handler = "wheelTimeout"
    /\ ~state.canZoom
    /\ ~state.panning

\* C25: the 's' key does to the state what a click on the options button
\* does: it toggles showOptions and changes nothing else.
C25_SKeyTogglesOptions ==
    [][keydown("s") => state' = [state EXCEPT !.showOptions = ~state.showOptions]]_vars

============================================================================
